---- MODULE Spec2Model ----
(***************************************************************************)
(* Hand Stability & Tremor Assessment Tool: the motion-signal pipeline of  *)
(* core/signal_processing.py and core/scoring.py, as run by the Results    *)
(* page (pages/3_Results.py).                                              *)
(*                                                                         *)
(* Python floats are modelled as fixed-point integers: the integer n       *)
(* stands for the real number n / SCALE.  Sums, differences, comparisons,  *)
(* min, max and abs are exact; a division or a square root is rounded      *)
(* toward zero to a multiple of 1 / SCALE (IEEE rounds to nearest; both    *)
(* roundings are monotone and symmetric in the sign).                      *)
(*                                                                         *)
(* The pages (pages/1_Calibration.py, pages/2_Live_Test.py) and the video  *)
(* processor (core/mediapipe_utils.py) that fill the session state the     *)
(* Results page reads are modelled after the pipeline.                     *)
(***************************************************************************)
EXTENDS Integers, Sequences, FiniteSets, TLC

VARIABLES
    config,              \* the attributes of module core.config
    raw_data,            \* dict finger -> list of (t, x, y)
    baseline_positions,  \* dict finger -> (x0, y0)
    displacement_ts,     \* dict finger -> list of (t, displacement)
    tremor,              \* dict finger -> tremor RMS
    drift,               \* dict finger -> drift
    fatigue,             \* dict finger -> fatigue index
    stability_score,     \* float, first component of compute_stability_score
    breakdown,           \* dict, second component of compute_stability_score
    pc,                  \* position in the sequence of pipeline calls
    session_state,       \* st.session_state: dict key -> value
    run,                 \* the page script that is running, with its local variables
    processor,           \* the MediaPipeHandProcessor instance of the stream
    worker,              \* the video worker thread, inside recv or between two frames
    history              \* what was recorded and stored so far (not program state)

\* the variables of the pages and of the video stream
appVars == <<session_state, run, processor, worker, history>>

vars == <<config, raw_data, baseline_positions, displacement_ts, tremor, drift,
          fatigue, stability_score, breakdown, pc, session_state, run, processor,
          worker, history>>

---------------------------------------------------------------------------
(* Bounds of the model *)

\* longest trajectory enumerated for the finger whose samples vary freely
MaxLen == 3

---------------------------------------------------------------------------
(* Fixed-point floats *)

\* units per 1.0
SCALE == 10000

\* the literal 1e-6 is 1 / EPS_DEN
EPS_DEN == 1000000

Abs(a) == IF a < 0 THEN -a ELSE a

Max(a, b) == IF a >= b THEN a ELSE b

Min(a, b) == IF a <= b THEN a ELSE b

\* a / b for floats a (any sign) and b > 0, both in units: |a| * SCALE / b rounded
\* down, with the sign of a.  Split so that no intermediate product leaves 32 bits.
FDiv(a, b) ==
    LET m == Abs(a)
        q == (m \div b) * SCALE + ((m % b) * SCALE) \div b
    IN  IF a < 0 THEN -q ELSE q

\* a * b for floats in units: |a| * |b| / SCALE rounded down, with the sign of the
\* product.  Split so that no intermediate product leaves 32 bits.
FMul(a, b) ==
    LET m == Abs(a)
        n == Abs(b)
        q == (m \div SCALE) * n + ((m % SCALE) * n) \div SCALE
    IN  IF (a < 0) # (b < 0) THEN -q ELSE q

\* a / n for a float a (any sign) and a positive integer count n
DivCount(a, n) == IF a < 0 THEN -((-a) \div n) ELSE a \div n

\* x < 1e-6 for a float x in units
LtEps(x) == x * (EPS_DEN \div SCALE) < 1

\* a / max(c, 1e-6) for floats a and c in units
\* The weights and the weighted penalty are held in a finer unit, so that a weight
\* sum that differs from 1 by less than 1e-6 is a value: n stands for n / WSCALE.
WSCALE == SCALE * 1000

\* x > 1e-6, for x in units of 1 / WSCALE
WGtEps(x) == x > WSCALE \div EPS_DEN

\* the digits of r / b after the point, down to 1 / unit (0 <= r < b)
RECURSIVE WLong(_, _, _)
WLong(r, b, unit) ==
    IF unit = 1 THEN 0
    ELSE LET u == unit \div 10
         IN  ((r * 10) \div b) * u + WLong((r * 10) % b, b, u)

\* a / b for two weights, in units of 1 / WSCALE
WDiv(a, b) ==
    LET m == Abs(a)
        q == (m \div b) * WSCALE + WLong(m % b, b, WSCALE)
    IN  IF a < 0 THEN -q ELSE q

\* w * p for a weight w and a penalty p in units of 1 / SCALE, in units of 1 / WSCALE
WMul(w, p) ==
    LET m == Abs(w)
        n == Abs(p)
        q == (m \div SCALE) * n + ((m % SCALE) * n) \div SCALE
    IN  IF (w < 0) # (p < 0) THEN -q ELSE q

DivByAtLeastEps(a, c) ==
    IF LtEps(c)
    THEN \* a / 1e-6; beyond 0.2 the quotient is held at 200000.0, the largest value
         \* the integers hold, and every caller clamps it to [0,1]
         Max(-((2 * SCALE) \div 10), Min((2 * SCALE) \div 10, a)) * EPS_DEN
    ELSE FDiv(a, c)

RECURSIVE SqrtSearch(_, _, _)
SqrtSearch(n, lo, hi) ==
    IF lo >= hi THEN lo
    ELSE LET mid == (lo + hi + 1) \div 2
         IN  IF mid * mid <= n THEN SqrtSearch(n, mid, hi)
             ELSE SqrtSearch(n, lo, mid - 1)

\* math.sqrt on a non-negative integer: the largest r with r * r <= n
ISqrt(n) == SqrtSearch(n, 0, Min(n, 46340))

RECURSIVE SumSeq(_)
SumSeq(s) == IF s = <<>> THEN 0 ELSE Head(s) + SumSeq(Tail(s))

RECURSIVE MinSeq(_)
MinSeq(s) == IF Len(s) = 1 THEN s[1] ELSE Min(Head(s), MinSeq(Tail(s)))

RECURSIVE MaxSeq(_)
MaxSeq(s) == IF Len(s) = 1 THEN s[1] ELSE Max(Head(s), MaxSeq(Tail(s)))

\* the elements of a list, as a set
Range(s) == {s[i] : i \in DOMAIN s}

\* dict.get(key, default)
DictGet(d, key, default) == IF key \in DOMAIN d THEN d[key] ELSE default

\* the empty dict
EmptyDict == <<>>

\* [v for v, m in zip(values, mask) if m]
RECURSIVE Masked(_, _)
Masked(values, mask) ==
    IF values = <<>> THEN <<>>
    ELSE (IF Head(mask) THEN <<Head(values)>> ELSE <<>>)
         \o Masked(Tail(values), Tail(mask))

---------------------------------------------------------------------------
(* core/config.py *)

ShippedConfig ==
    [ TEST_DURATION_SECONDS |-> 30 * SCALE,
      FINGERS_TO_TRACK      |-> <<"THUMB", "INDEX", "MIDDLE">>,
      WEIGHT_TREMOR         |-> (4 * WSCALE) \div 10,
      WEIGHT_DRIFT          |-> (3 * WSCALE) \div 10,
      WEIGHT_FATIGUE        |-> (3 * WSCALE) \div 10,
      TREMOR_MAX_EXPECTED   |-> (5 * SCALE) \div 100,
      DRIFT_MAX_EXPECTED    |-> (1 * SCALE) \div 10,
      FATIGUE_MAX_EXPECTED  |-> 2 * SCALE ]

---------------------------------------------------------------------------
(* core/signal_processing.py *)

\* the loop body with the samples taken in timestamp order
RECURSIVE SortedByTime(_)
SortedByTime(samples) ==
    IF samples = <<>> THEN <<>>
    ELSE LET i == CHOOSE i \in DOMAIN samples :
                      \A j \in DOMAIN samples :
                          samples[i][1] < samples[j][1]
                          \/ (samples[i][1] = samples[j][1] /\ i <= j)
         IN  <<samples[i]>>
             \o SortedByTime([k \in 1..(Len(samples) - 1) |->
                                 IF k < i THEN samples[k] ELSE samples[k + 1]])

displacement_series_Sorted(samples, baseline) ==
    LET sorted == SortedByTime(samples)
    IN  [i \in 1..Len(sorted) |->
            LET dx == sorted[i][2] - baseline[1]
                dy == sorted[i][3] - baseline[2]
            IN  <<sorted[i][1], ISqrt(dx * dx + dy * dy)>>]

\* the loop body of lines 78-87: one finger's samples against its baseline
displacement_series(samples, baseline) ==
    LET x0 == baseline[1]
        y0 == baseline[2]
    IN  [i \in 1..Len(samples) |->
            LET dx == samples[i][2] - x0
                dy == samples[i][3] - y0
            IN  <<samples[i][1], ISqrt(dx * dx + dy * dy)>>]

\* the deriver looping over the keys of raw_data instead of the configured fingers
compute_displacement_time_series_RawKeys(raw, baselines) ==
    [finger_name \in DOMAIN raw |->
        IF raw[finger_name] = <<>> \/ finger_name \notin DOMAIN baselines
        THEN <<>>
        ELSE displacement_series(raw[finger_name], baselines[finger_name])]

compute_displacement_time_series(raw, baselines) ==
    [finger_name \in Range(config.FINGERS_TO_TRACK) |->
        LET samples == DictGet(raw, finger_name, <<>>)
        IN  IF samples = <<>> \/ finger_name \notin DOMAIN baselines
            THEN <<>>
            ELSE displacement_series(samples, baselines[finger_name])]

\* sqrt(mean(arr * arr)); 0.0 for the empty list
\* the root of the sum of the squares, not of their mean
_rms_RootSum(values) ==
    IF values = <<>> THEN 0
    ELSE ISqrt(SumSeq([i \in DOMAIN values |-> values[i] * values[i]]))

\* what a float holds when it is not a number: the mean of no values
NaN == -(2 * SCALE * SCALE)

\* the root of the mean without the test for an empty list
_rms_NoEmptyTest(values) ==
    IF Len(values) = 0 THEN NaN
    ELSE ISqrt(SumSeq([i \in DOMAIN values |-> values[i] * values[i]]) \div Len(values))

_rms(values) ==
    IF values = <<>> THEN 0
    ELSE ISqrt(SumSeq([i \in DOMAIN values |-> values[i] * values[i]]) \div Len(values))

\* [t for t, _ in series]
series_times(series) == [i \in DOMAIN series |-> series[i][1]]

\* [d for _, d in series]
series_displacements(series) == [i \in DOMAIN series |-> series[i][2]]

\* the extractor skipping the fingers whose series is empty
compute_tremor_metrics_SkipEmpty(dts) ==
    [finger_name \in {f \in DOMAIN dts : dts[f] # <<>>} |->
        _rms(series_displacements(dts[finger_name]))]

compute_tremor_metrics(dts) ==
    [finger_name \in DOMAIN dts |-> _rms(series_displacements(dts[finger_name]))]

\* the drift between the entries of least and greatest timestamp
drift_of_series_ByTime(series) ==
    IF Len(series) < 2 THEN 0
    ELSE LET first == CHOOSE i \in DOMAIN series :
                          \A j \in DOMAIN series :
                              series[i][1] < series[j][1]
                              \/ (series[i][1] = series[j][1] /\ i <= j)
             last == CHOOSE i \in DOMAIN series :
                         \A j \in DOMAIN series :
                             series[i][1] > series[j][1]
                             \/ (series[i][1] = series[j][1] /\ i >= j)
         IN  series[last][2] - series[first][2]

\* one finger's drift, lines 149-156
drift_of_series(series) ==
    IF Len(series) < 2 THEN 0
    ELSE series[Len(series)][2] - series[1][2]

\* one entry per configured finger instead of one per key of the map
compute_drift_metrics_Tracked(dts) ==
    [finger_name \in Range(config.FINGERS_TO_TRACK) |->
        drift_of_series(DictGet(dts, finger_name, <<>>))]

compute_drift_metrics(dts) ==
    [finger_name \in DOMAIN dts |-> drift_of_series(dts[finger_name])]

\* lines 209-233 with two independent tests in the long branch: a time that passes
\* both is marked early and late
mask_pair_Overlap(t, t_min, t_max) ==
    LET total_span == t_max - t_min
    IN  IF total_span >= 20 * SCALE
        THEN <<t <= t_min + 10 * SCALE, t >= t_max - 10 * SCALE>>
        ELSE IF t <= t_min + FDiv(total_span, 2 * SCALE)
             THEN <<TRUE, FALSE>>
             ELSE <<FALSE, TRUE>>

\* lines 209-233 with a strict comparison against early_end
mask_pair_StrictEarly(t, t_min, t_max) ==
    LET total_span == t_max - t_min
    IN  IF total_span >= 20 * SCALE
        THEN IF t < t_min + 10 * SCALE THEN <<TRUE, FALSE>>
             ELSE IF t >= t_max - 10 * SCALE THEN <<FALSE, TRUE>>
             ELSE <<FALSE, FALSE>>
        ELSE IF t <= t_min + FDiv(total_span, 2 * SCALE)
             THEN <<TRUE, FALSE>>
             ELSE <<FALSE, TRUE>>

\* lines 209-233 with a strict comparison against the midpoint
mask_pair_StrictMid(t, t_min, t_max) ==
    LET total_span == t_max - t_min
    IN  IF total_span >= 20 * SCALE
        THEN IF t <= t_min + 10 * SCALE THEN <<TRUE, FALSE>>
             ELSE IF t >= t_max - 10 * SCALE THEN <<FALSE, TRUE>>
             ELSE <<FALSE, FALSE>>
        ELSE IF t < t_min + FDiv(total_span, 2 * SCALE)
             THEN <<TRUE, FALSE>>
             ELSE <<FALSE, TRUE>>

\* lines 209-233: what one time t appends to (early_mask, late_mask)
mask_pair(t, t_min, t_max) ==
    LET total_span == t_max - t_min
    IN  IF total_span >= 20 * SCALE
        THEN IF t <= t_min + 10 * SCALE THEN <<TRUE, FALSE>>
             ELSE IF t >= t_max - 10 * SCALE THEN <<FALSE, TRUE>>
             ELSE <<FALSE, FALSE>>
        ELSE IF t <= t_min + FDiv(total_span, 2 * SCALE)
             THEN <<TRUE, FALSE>>
             ELSE <<FALSE, TRUE>>

\* early_mask after the loop, for a list of at least one time
early_mask(times) ==
    [i \in DOMAIN times |-> mask_pair(times[i], MinSeq(times), MaxSeq(times))[1]]

\* late_mask after the loop, for a list of at least one time
late_mask(times) ==
    [i \in DOMAIN times |-> mask_pair(times[i], MinSeq(times), MaxSeq(times))[2]]

\* the index clipped at FATIGUE_MAX_EXPECTED
fatigue_index_Clipped(early_rms, late_rms) ==
    IF LtEps(early_rms) THEN 1 * SCALE
    ELSE Min(config.FATIGUE_MAX_EXPECTED, FDiv(late_rms, early_rms))

\* lines 244-251: the index from the two window RMS values
fatigue_index(early_rms, late_rms) ==
    IF LtEps(early_rms) THEN 1 * SCALE ELSE FDiv(late_rms, early_rms)

\* the finger's fatigue without the empty-window test of lines 239-242
fatigue_of_series_NoEmptyTest(series) ==
    IF Len(series) < 2 THEN 1 * SCALE
    ELSE LET times == series_times(series)
             displacements == series_displacements(series)
             early_values == Masked(displacements, early_mask(times))
             late_values == Masked(displacements, late_mask(times))
         IN  fatigue_index(_rms(early_values), _rms(late_values))

\* one finger's fatigue, lines 194-253
fatigue_of_series(series) ==
    IF Len(series) < 2 THEN 1 * SCALE
    ELSE LET times == series_times(series)
             displacements == series_displacements(series)
             early_values == Masked(displacements, early_mask(times))
             late_values == Masked(displacements, late_mask(times))
         IN  IF early_values = <<>> \/ late_values = <<>>
             THEN 1 * SCALE
             ELSE fatigue_index(_rms(early_values), _rms(late_values))

compute_fatigue_metrics(dts) ==
    [finger_name \in DOMAIN dts |-> fatigue_of_series(dts[finger_name])]

---------------------------------------------------------------------------
(* core/scoring.py *)

RECURSIVE SumValues(_, _)
SumValues(metric, keys) ==
    IF keys = {} THEN 0
    ELSE LET k == CHOOSE k \in keys : TRUE
         IN  metric[k] + SumValues(metric, keys \ {k})

\* the mean over the fingers whose value is not 0.0 only
_average_metric_NonZero(metric) ==
    LET keys == {k \in DOMAIN metric : metric[k] # 0}
    IN  IF keys = {} THEN 0
        ELSE DivCount(SumValues(metric, keys), Cardinality(keys))

_average_metric(metric) ==
    IF DOMAIN metric = {} THEN 0
    ELSE DivCount(SumValues(metric, DOMAIN metric), Cardinality(DOMAIN metric))

\* the clamp without its upper limit
Clamp01_NoUpper(penalty) == Max(0, penalty)

\* max(0.0, min(1.0, penalty))
Clamp01(penalty) == Max(0, Min(1 * SCALE, penalty))

_normalize_tremor(avg_tremor) ==
    Clamp01(DivByAtLeastEps(avg_tremor, config.TREMOR_MAX_EXPECTED))

\* the quotient of the signed mean drift
_normalize_drift_Signed(avg_drift) ==
    Clamp01(DivByAtLeastEps(avg_drift, config.DRIFT_MAX_EXPECTED))

_normalize_drift(avg_drift) ==
    Clamp01(DivByAtLeastEps(Abs(avg_drift), config.DRIFT_MAX_EXPECTED))

\* the excess over 1.0 divided by FATIGUE_MAX_EXPECTED itself
_normalize_fatigue_WholeRange(avg_fatigue) ==
    IF avg_fatigue <= 1 * SCALE THEN 0
    ELSE Clamp01(DivByAtLeastEps(avg_fatigue - 1 * SCALE, config.FATIGUE_MAX_EXPECTED))

_normalize_fatigue(avg_fatigue) ==
    IF avg_fatigue <= 1 * SCALE THEN 0
    ELSE Clamp01(DivByAtLeastEps(avg_fatigue - 1 * SCALE,
                                 config.FATIGUE_MAX_EXPECTED - 1 * SCALE))

\* the configured weights as they are, whatever their sum
score_weights_AsConfigured ==
    [w_t |-> config.WEIGHT_TREMOR,
     w_d |-> config.WEIGHT_DRIFT,
     w_f |-> config.WEIGHT_FATIGUE]

\* lines 128-138: the weights, divided by their sum if it is not 1 within 1e-6
score_weights ==
    LET w_t == config.WEIGHT_TREMOR
        w_d == config.WEIGHT_DRIFT
        w_f == config.WEIGHT_FATIGUE
        weight_sum == w_t + w_d + w_f
    IN  IF WGtEps(Abs(weight_sum - 1 * WSCALE))
        THEN [w_t |-> WDiv(w_t, weight_sum),
              w_d |-> WDiv(w_d, weight_sum),
              w_f |-> WDiv(w_f, weight_sum)]
        ELSE [w_t |-> w_t, w_d |-> w_d, w_f |-> w_f]

\* the weighted penalty as a percentage, not turned into a score
score_of_penalty_Percent(weighted_penalty) ==
    Max(0, Min(100 * SCALE, (100 * weighted_penalty) \div (WSCALE \div SCALE)))

\* lines 140-145: the score from the weighted penalty
score_of_penalty(weighted_penalty) ==
    IF weighted_penalty >= 1 * WSCALE THEN 0        \* max(0.0, ...)
    ELSE IF weighted_penalty <= 0 THEN 100 * SCALE  \* min(100.0, ...)
    ELSE (100 * (1 * WSCALE - weighted_penalty)) \div (WSCALE \div SCALE)

compute_stability_score(tremor_m, drift_m, fatigue_m) ==
    LET avg_tremor == _average_metric(tremor_m)
        avg_drift == _average_metric(drift_m)
        avg_fatigue == _average_metric(fatigue_m)
        penalty_tremor == _normalize_tremor(avg_tremor)
        penalty_drift == _normalize_drift(avg_drift)
        penalty_fatigue == _normalize_fatigue(avg_fatigue)
        w == score_weights
        weighted_penalty == WMul(w.w_t, penalty_tremor)
                            + WMul(w.w_d, penalty_drift)
                            + WMul(w.w_f, penalty_fatigue)
    IN  [stability_score |-> score_of_penalty(weighted_penalty),
         breakdown |->
            [avg_tremor |-> avg_tremor,
             avg_drift |-> avg_drift,
             avg_fatigue |-> avg_fatigue,
             penalty_tremor |-> penalty_tremor,
             penalty_drift |-> penalty_drift,
             penalty_fatigue |-> penalty_fatigue,
             weighted_penalty |-> weighted_penalty]]

---------------------------------------------------------------------------
(* Inputs of the pipeline *)

Seconds(n) == n * SCALE

\* timestamps of the enumerated samples: spans below, at and above 20 s occur
TimeVals == {Seconds(0), Seconds(10), Seconds(20), Seconds(32)}

\* fingertip positions (x, y) of the enumerated samples
Positions == {<<5000, 5000>>, <<5300, 5400>>}

Samples == {<<t, p[1], p[2]>> : t \in TimeVals, p \in Positions}

SeqsUpTo(S, n) == UNION {[1..k -> S] : k \in 0..n}

\* baselines
B0 == <<5000, 5000>>

B1 == <<5000, 4600>>

\* THUMB of scenario A: (0,0.5,0.5), (1,0.55,0.5), (2,0.5,0.5)
ScenarioA ==
    <<<<Seconds(0), 5000, 5000>>, <<Seconds(1), 5500, 5000>>, <<Seconds(2), 5000, 5000>>>>

\* 21 samples evenly spaced over 20 s
Even21 ==
    [i \in 1..21 |-> <<Seconds(i - 1), IF i % 2 = 0 THEN 5500 ELSE 5300, 5000>>]

OneSample == <<<<Seconds(10), 5500, 5000>>>>

\* two samples at one timestamp
SameTime2 == <<<<Seconds(10), 5500, 5000>>, <<Seconds(10), 5000, 6200>>>>

\* the finger whose trajectory varies freely, with the rest of raw_data and the
\* baselines around it
Contexts ==
    { [rich |-> "THUMB", raw |-> EmptyDict, base |-> ("THUMB" :> B0)],
      [rich |-> "THUMB", raw |-> ("INDEX" :> <<>>),
       base |-> ("THUMB" :> B0) @@ ("INDEX" :> B0)],
      [rich |-> "INDEX", raw |-> ("THUMB" :> SameTime2) @@ ("MIDDLE" :> OneSample),
       base |-> ("THUMB" :> B0) @@ ("INDEX" :> B0) @@ ("MIDDLE" :> B0)],
      [rich |-> "MIDDLE", raw |-> ("THUMB" :> OneSample) @@ ("PINKY" :> OneSample),
       base |-> ("MIDDLE" :> B1) @@ ("PINKY" :> B0)],
      [rich |-> "THUMB", raw |-> ("INDEX" :> OneSample), base |-> EmptyDict],
      [rich |-> "INDEX", raw |-> ("THUMB" :> ScenarioA) @@ ("MIDDLE" :> OneSample),
       base |-> ("THUMB" :> B0) @@ ("INDEX" :> B1) @@ ("PINKY" :> B0)] }

\* a 25 s series with a sample in the dead zone, and the same without it
Span25 ==
    <<<<Seconds(0), 5100, 5000>>, <<Seconds(12), 5000, 6200>>, <<Seconds(25), 5500, 5000>>>>

Span25NoMiddle == <<<<Seconds(0), 5100, 5000>>, <<Seconds(25), 5500, 5000>>>>

\* inputs without a freely varying finger
FixedInputs ==
    { [raw |-> ("THUMB" :> ScenarioA), base |-> ("THUMB" :> B0)],
      [raw |-> ("THUMB" :> Span25) @@ ("INDEX" :> Span25NoMiddle) @@ ("PINKY" :> Span25),
       base |-> ("THUMB" :> B0) @@ ("INDEX" :> B0) @@ ("MIDDLE" :> B0)],
      [raw |-> ("INDEX" :> ScenarioA) @@ ("MIDDLE" :> Even21),
       base |-> ("THUMB" :> B0) @@ ("INDEX" :> B0) @@ ("MIDDLE" :> B0)],
      [raw |-> ("THUMB" :> Even21) @@ ("INDEX" :> <<>>) @@ ("MIDDLE" :> OneSample),
       base |-> ("THUMB" :> B1) @@ ("INDEX" :> B0)] }

\* Python's None
None == <<>>

\* no page script has run and no stream was started
NoRun == [page |-> "none", pc |-> "finished"]

\* MediaPipeHandProcessor.__init__
NewProcessor == [latest_frame_rgb |-> None, latest_fingertips |-> None, _lock |-> "free"]

\* the worker thread between two calls of recv
IdleWorker == [pc |-> "idle"]

\* nothing was recorded, calibrated or stored yet
NoHistory ==
    [recorded |-> None, recorded_with |-> None, sampled |-> {}, stored |-> {}, runs |-> 0]

\* the state of the pages and of the stream while the pipeline is looked at alone
AppOff ==
    /\ session_state = EmptyDict
    /\ run = NoRun
    /\ processor = NewProcessor
    /\ worker = IdleWorker
    /\ history = NoHistory

---------------------------------------------------------------------------
(* The pipeline applied to given inputs, in the order of the calls of          *)
(* pages/3_Results.py, lines 50-62.  The inputs are any raw_data and          *)
(* baseline_positions the functions accept, not only those the page's         *)
(* prerequisites (lines 39-45) let through.                                   *)

Init ==
    /\ config = ShippedConfig
    /\ \/ \E c \in Contexts :
             /\ baseline_positions = c.base
             /\ raw_data \in {c.raw}
                    \cup {c.raw @@ (c.rich :> s) : s \in SeqsUpTo(Samples, MaxLen)}
       \/ \E c \in FixedInputs :
             /\ baseline_positions = c.base
             /\ raw_data = c.raw
    /\ displacement_ts = EmptyDict
    /\ tremor = EmptyDict
    /\ drift = EmptyDict
    /\ fatigue = EmptyDict
    /\ stability_score = 0
    /\ breakdown = EmptyDict
    /\ pc = "start"
    /\ AppOff

\* lines 50-53
Displacement ==
    /\ pc = "start"
    /\ displacement_ts' = compute_displacement_time_series(raw_data, baseline_positions)
    /\ pc' = "displacement"
    /\ UNCHANGED <<config, raw_data, baseline_positions, tremor, drift, fatigue,
                   stability_score, breakdown>>
    /\ UNCHANGED appVars

\* line 54
Tremor ==
    /\ pc = "displacement"
    /\ tremor' = compute_tremor_metrics(displacement_ts)
    /\ pc' = "tremor"
    /\ UNCHANGED <<config, raw_data, baseline_positions, displacement_ts, drift, fatigue,
                   stability_score, breakdown>>
    /\ UNCHANGED appVars

\* line 55
Drift ==
    /\ pc = "tremor"
    /\ drift' = compute_drift_metrics(displacement_ts)
    /\ pc' = "drift"
    /\ UNCHANGED <<config, raw_data, baseline_positions, displacement_ts, tremor, fatigue,
                   stability_score, breakdown>>
    /\ UNCHANGED appVars

\* line 56
Fatigue ==
    /\ pc = "drift"
    /\ fatigue' = compute_fatigue_metrics(displacement_ts)
    /\ pc' = "fatigue"
    /\ UNCHANGED <<config, raw_data, baseline_positions, displacement_ts, tremor, drift,
                   stability_score, breakdown>>
    /\ UNCHANGED appVars

\* lines 58-62
Score ==
    /\ pc = "fatigue"
    /\ LET r == compute_stability_score(tremor, drift, fatigue)
       IN  /\ stability_score' = r.stability_score
           /\ breakdown' = r.breakdown
    /\ pc' = "done"
    /\ UNCHANGED <<config, raw_data, baseline_positions, displacement_ts, tremor, drift,
                   fatigue>>
    /\ UNCHANGED appVars

Next == Displacement \/ Tremor \/ Drift \/ Fatigue \/ Score

Spec == Init /\ [][Next]_vars

---------------------------------------------------------------------------
(* compute_stability_score over arbitrary metric maps *)

\* keys of the enumerated metric maps: one tracked finger, one that is not
ScoreKeys == {"THUMB", "PINKY"}

TremorVals == {0, 300, 2 * SCALE}

DriftVals == {-2000, -301, 0, 1000}

FatigueVals == {0, 1 * SCALE, 15000, 2 * SCALE, 20 * SCALE}

\* every dict from a subset of keys to the values
Dicts(keys, values) == UNION {[ks -> values] : ks \in SUBSET keys}

\* the shipped configuration, and one with a wider fatigue range
ScoreConfigs == {ShippedConfig, [ShippedConfig EXCEPT !.FATIGUE_MAX_EXPECTED = 3 * SCALE]}

InitScore ==
    /\ config \in ScoreConfigs
    /\ raw_data = EmptyDict
    /\ baseline_positions = EmptyDict
    /\ displacement_ts = EmptyDict
    /\ tremor \in Dicts(ScoreKeys, TremorVals)
    /\ drift \in Dicts(ScoreKeys, DriftVals)
    /\ fatigue \in Dicts(ScoreKeys, FatigueVals)
    /\ stability_score = 0
    /\ breakdown = EmptyDict
    /\ pc = "fatigue"
    /\ AppOff

NextScore == Score

SpecScore == InitScore /\ [][NextScore]_vars

---------------------------------------------------------------------------
(* Properties *)

Fingers == Range(config.FINGERS_TO_TRACK)

\* the finger has a non-empty trajectory and a baseline
Usable(f) ==
    /\ f \in DOMAIN raw_data
    /\ raw_data[f] # <<>>
    /\ f \in DOMAIN baseline_positions

InUnit(v) == 0 <= v /\ v <= 1 * SCALE

\* C1: whatever the three metric maps are (any key sets, empty maps, negative
\* drifts, fatigue below 1 or far above FATIGUE_MAX_EXPECTED), under the shipped
\* configuration every penalty and the weighted penalty returned by
\* compute_stability_score lie in [0,1] and the score lies in [0,100].
C1_ScoreRanges ==
    pc = "done" =>
        /\ InUnit(breakdown.penalty_tremor)
        /\ InUnit(breakdown.penalty_drift)
        /\ InUnit(breakdown.penalty_fatigue)
        /\ 0 <= breakdown.weighted_penalty
        /\ breakdown.weighted_penalty <= 1 * WSCALE
        /\ 0 <= stability_score
        /\ stability_score <= 100 * SCALE

\* a score was computed from a negative mean drift beyond DRIFT_MAX_EXPECTED, a mean
\* tremor beyond TREMOR_MAX_EXPECTED and a mean fatigue far above
\* FATIGUE_MAX_EXPECTED: every clamp acted
C1_Witness ==
    /\ pc = "done"
    /\ breakdown.avg_drift < -config.DRIFT_MAX_EXPECTED
    /\ breakdown.avg_tremor > config.TREMOR_MAX_EXPECTED
    /\ breakdown.avg_fatigue > 5 * config.FATIGUE_MAX_EXPECTED
    /\ stability_score = 0

\* C2: the map returned by compute_displacement_time_series has exactly the
\* configured tracked fingers as keys, whatever keys raw_data and
\* baseline_positions have, and a tracked finger with a missing or empty
\* trajectory or without a baseline is present with the empty sequence.
C2_DisplacementKeys ==
    pc # "start" =>
        /\ DOMAIN displacement_ts = Fingers
        /\ \A f \in Fingers : ~Usable(f) => displacement_ts[f] = <<>>

\* the deriver ran on a raw_data with a key that is not tracked, without a tracked
\* finger, and with a tracked finger that has samples and no baseline
C2_Witness ==
    /\ pc = "displacement"
    /\ DOMAIN raw_data \ Fingers # {}
    /\ Fingers \ DOMAIN raw_data # {}
    /\ \E f \in Fingers \cap DOMAIN raw_data :
          raw_data[f] # <<>> /\ f \notin DOMAIN baseline_positions
    /\ \E f \in Fingers : displacement_ts[f] # <<>>

---------------------------------------------------------------------------
(* The fatigue windows, stated from the timestamps of a series *)

\* compute_fatigue_metrics has returned
FatigueComputed == pc \in {"fatigue", "done"}

TimesOf(s) == {s[i][1] : i \in DOMAIN s}

TMin(s) == CHOOSE m \in TimesOf(s) : \A u \in TimesOf(s) : m <= u

TMax(s) == CHOOSE m \in TimesOf(s) : \A u \in TimesOf(s) : u <= m

SpanOf(s) == TMax(s) - TMin(s)

LongTest(s) == Len(s) >= 2 /\ SpanOf(s) >= Seconds(20)

ShortTest(s) == Len(s) >= 2 /\ SpanOf(s) < Seconds(20)

\* t <= t_min + 10
EarlyLong(s, e) == e[1] <= TMin(s) + Seconds(10)

\* t >= t_max - 10
LateLongInclusive(s, e) == e[1] >= TMax(s) - Seconds(10)

\* t >= t_max - 10 and not t <= t_min + 10
LateLong(s, e) == LateLongInclusive(s, e) /\ ~EarlyLong(s, e)

\* t_min + 10 < t < t_max - 10
DeadZone(s, e) == ~EarlyLong(s, e) /\ ~LateLongInclusive(s, e)

\* t <= t_min + span / 2
EarlyShort(s, e) == 2 * (e[1] - TMin(s)) <= SpanOf(s)

\* the displacements of the entries of s that satisfy In
Window(s, In(_, _)) == series_displacements(SelectSeq(s, LAMBDA e : In(s, e)))

\* the number of TRUE entries of a mask
CountTrue(mask) == Cardinality({i \in DOMAIN mask : mask[i]})

\* r is the root mean square of the values, rounded down
IsRms(r, values) ==
    LET sq == SumSeq([i \in DOMAIN values |-> values[i] * values[i]])
    IN  /\ r >= 0
        /\ r * r * Len(values) <= sq
        /\ sq < (r + 1) * (r + 1) * Len(values)

\* q is l / e, rounded down
IsQuotient(q, l, e) == q >= 0 /\ q * e <= l * SCALE /\ l * SCALE < (q + 1) * e

\* the RMS of the values is below 1e-6: below one unit, it rounds down to 0
RmsBelowEps(values) == IsRms(0, values)

\* v is the fatigue index of a series of at least 2 samples with these windows
IsFatigueOf(v, early, late) ==
    IF early = <<>> \/ late = <<>> THEN v = 1 * SCALE
    ELSE IF RmsBelowEps(early) THEN v = 1 * SCALE
    ELSE /\ IsRms(_rms(early), early)
         /\ IsRms(_rms(late), late)
         /\ IsQuotient(v, _rms(late), _rms(early))

\* the masks of the series are the windows Early and Late
MasksAre(s, Early(_, _), Late(_, _)) ==
    \A i \in DOMAIN s :
        /\ early_mask(series_times(s))[i] = Early(s, s[i])
        /\ late_mask(series_times(s))[i] = Late(s, s[i])

HasMidpointSample(s) ==
    /\ Len(s) >= 2
    /\ SpanOf(s) = Seconds(20)
    /\ \E i \in DOMAIN s : s[i][1] = TMin(s) + Seconds(10)

\* 21 samples evenly spaced over 20 s
IsEven21(s) == Len(s) = 21 /\ \A i \in DOMAIN s : s[i][1] = Seconds(i - 1)

C5_ShortWindows ==
    FatigueComputed =>
        \A f \in DOMAIN displacement_ts :
            LET s == displacement_ts[f]
                times == series_times(s)
            IN  ShortTest(s) =>
                    /\ \A i \in DOMAIN s :
                          /\ early_mask(times)[i] = EarlyShort(s, s[i])
                          /\ late_mask(times)[i] = ~EarlyShort(s, s[i])
                    /\ CountTrue(early_mask(times)) + CountTrue(late_mask(times)) = Len(s)
                    /\ IsFatigueOf(fatigue[f], Window(s, EarlyShort),
                                   Window(s, LAMBDA u, e : ~EarlyShort(u, e)))

\* a short series of 3 samples with one exactly at the midpoint, which is early
C5_Witness ==
    /\ FatigueComputed
    /\ \E f \in DOMAIN displacement_ts :
          LET s == displacement_ts[f]
          IN  /\ ShortTest(s)
              /\ Len(s) = 3
              /\ \E i \in DOMAIN s :
                    /\ 2 * (s[i][1] - TMin(s)) = SpanOf(s)
                    /\ early_mask(series_times(s))[i]
                    /\ s[i][2] > 0
              /\ CountTrue(late_mask(series_times(s))) = 1

\* the windows the code uses for a series of at least 2 samples
EarlyOf(s) == IF LongTest(s) THEN Window(s, EarlyLong) ELSE Window(s, EarlyShort)

LateOf(s) ==
    IF LongTest(s) THEN Window(s, LateLong)
    ELSE Window(s, LAMBDA u, e : ~EarlyShort(u, e))

\* C6: compute_fatigue_metrics returns exactly 1.0 for a finger whose series has
\* fewer than 2 samples, or whose early or late window is empty (all samples at
\* one timestamp, for instance), or whose early-window RMS is below 1e-6, however
\* large the late-window values are.
C6_NeutralFatigue ==
    FatigueComputed =>
        \A f \in DOMAIN displacement_ts :
            LET s == displacement_ts[f]
            IN  /\ f \in DOMAIN fatigue
                /\ Len(s) < 2 => fatigue[f] = 1 * SCALE
                /\ Len(s) >= 2 =>
                      /\ EarlyOf(s) = <<>> => fatigue[f] = 1 * SCALE
                      /\ LateOf(s) = <<>> => fatigue[f] = 1 * SCALE
                      /\ RmsBelowEps(EarlyOf(s)) => fatigue[f] = 1 * SCALE

\* one finger has an all-zero early window before a late displacement of 0.05 or
\* more, another has all its samples at one timestamp away from the baseline (its
\* late window is empty), a third has a single sample: all three are 1.0
C6_Witness ==
    /\ FatigueComputed
    /\ \E f \in DOMAIN displacement_ts :
          LET s == displacement_ts[f]
          IN  /\ Len(s) >= 2
              /\ EarlyOf(s) # <<>>
              /\ LateOf(s) # <<>>
              /\ RmsBelowEps(EarlyOf(s))
              /\ \A i \in DOMAIN LateOf(s) : LateOf(s)[i] >= 500
              /\ fatigue[f] = 1 * SCALE
    /\ \E f \in DOMAIN displacement_ts :
          LET s == displacement_ts[f]
          IN  /\ Len(s) >= 2
              /\ SpanOf(s) = 0
              /\ \A i \in DOMAIN s : s[i][2] > 0
              /\ LateOf(s) = <<>>
              /\ fatigue[f] = 1 * SCALE
    /\ \E f \in DOMAIN displacement_ts :
          Len(displacement_ts[f]) = 1 /\ fatigue[f] = 1 * SCALE

\* C7: for a series of at least 2 samples with both windows non-empty and an
\* early-window RMS of at least 1e-6 the fatigue index is RMS(late) / RMS(early),
\* clamped on neither side: it is 0.0 when every late displacement is 0 (scenario
\* A: early = {0, 0.05}, late = {0}, fatigue 0.0) and it may exceed
\* FATIGUE_MAX_EXPECTED.
C7_FatigueRatio ==
    FatigueComputed =>
        \A f \in DOMAIN displacement_ts :
            LET s == displacement_ts[f]
                early == EarlyOf(s)
                late == LateOf(s)
            IN  /\ (Len(s) >= 2 /\ early # <<>> /\ late # <<>> /\ ~RmsBelowEps(early)) =>
                      /\ IsRms(_rms(early), early)
                      /\ IsRms(_rms(late), late)
                      /\ IsQuotient(fatigue[f], _rms(late), _rms(early))
                      /\ (\A i \in DOMAIN late : late[i] = 0) => fatigue[f] = 0
                /\ (Usable(f) /\ raw_data[f] = ScenarioA /\ baseline_positions[f] = B0) =>
                      /\ s = <<<<Seconds(0), 0>>, <<Seconds(1), 500>>, <<Seconds(2), 0>>>>
                      /\ early = <<0, 500>>
                      /\ late = <<0>>
                      /\ fatigue[f] = 0

\* scenario A was computed for one finger (fatigue 0.0) and another finger has an
\* index above FATIGUE_MAX_EXPECTED
C7_Witness ==
    /\ FatigueComputed
    /\ \E f \in DOMAIN displacement_ts :
          /\ Usable(f)
          /\ raw_data[f] = ScenarioA
          /\ baseline_positions[f] = B0
          /\ fatigue[f] = 0
    /\ \E f \in DOMAIN displacement_ts : fatigue[f] > config.FATIGUE_MAX_EXPECTED

\* d is the Euclidean distance of (x, y) from (x0, y0), rounded down
IsDistance(d, x, y, x0, y0) ==
    LET sq == (x - x0) * (x - x0) + (y - y0) * (y - y0)
    IN  d >= 0 /\ d * d <= sq /\ sq < (d + 1) * (d + 1)

\* C8: for a tracked finger with a non-empty trajectory and a baseline the series
\* has the length of the trajectory, and its i-th entry carries the timestamp of
\* the i-th sample and that sample's Euclidean distance from the baseline; the
\* input order is kept, also when it is not the timestamp order.
C8_DisplacementEntries ==
    pc # "start" =>
        \A f \in Fingers :
            Usable(f) =>
                /\ Len(displacement_ts[f]) = Len(raw_data[f])
                /\ \A i \in DOMAIN raw_data[f] :
                      /\ displacement_ts[f][i][1] = raw_data[f][i][1]
                      /\ IsDistance(displacement_ts[f][i][2],
                                    raw_data[f][i][2], raw_data[f][i][3],
                                    baseline_positions[f][1], baseline_positions[f][2])

\* a trajectory of 3 samples that is not in timestamp order, with a sample off the
\* baseline in x and in y
C8_Witness ==
    /\ pc = "displacement"
    /\ \E f \in Fingers :
          /\ Usable(f)
          /\ Len(raw_data[f]) = 3
          /\ raw_data[f][1][1] > raw_data[f][2][1]
          /\ raw_data[f][2][1] < raw_data[f][3][1]
          /\ raw_data[f][1][2] # baseline_positions[f][1]
          /\ raw_data[f][1][3] # baseline_positions[f][2]
          /\ displacement_ts[f][1][2] = 854
          /\ displacement_ts[f][1][1] = raw_data[f][1][1]

DriftComputed == pc \in {"drift", "fatigue", "done"}

\* C9: compute_drift_metrics returns for each finger the displacement of the last
\* entry of the list minus the displacement of the first entry of the list
\* (signed), and 0.0 for a series of fewer than 2 entries; the list positions
\* decide, not the timestamps.
C9_DriftFirstLast ==
    DriftComputed =>
        /\ DOMAIN drift = DOMAIN displacement_ts
        /\ \A f \in DOMAIN displacement_ts :
              LET s == displacement_ts[f]
              IN  /\ Len(s) < 2 => drift[f] = 0
                  /\ Len(s) >= 2 => drift[f] = s[Len(s)][2] - s[1][2]

\* a series whose first entry has the greatest timestamp and whose last entry is
\* not the one of least timestamp: the drift is negative, by timestamps it would
\* be positive
C9_Witness ==
    /\ DriftComputed
    /\ \E f \in DOMAIN displacement_ts :
          LET s == displacement_ts[f]
          IN  /\ Len(s) = 3
              /\ s[1][1] = TMax(s)
              /\ s[2][1] = TMin(s)
              /\ s[3][1] # TMin(s)
              /\ s[3][1] # TMax(s)
              /\ drift[f] = s[3][2] - s[1][2]
              /\ drift[f] < 0
              /\ s[1][2] - s[2][2] > 0

\* C10 as stated: in the output of the pipeline a tracked finger without usable
\* data (empty trajectory or no baseline) has no entry in the tremor, drift and
\* fatigue maps; each map covers exactly the fingers that had usable data.
C10_Original ==
    pc = "done" =>
        /\ DOMAIN tremor = {f \in Fingers : Usable(f)}
        /\ DOMAIN drift = {f \in Fingers : Usable(f)}
        /\ DOMAIN fatigue = {f \in Fingers : Usable(f)}

\* C10 amended: in the output of the pipeline a tracked finger without usable data
\* has an entry in each of the tremor, drift and fatigue maps, with tremor 0.0,
\* drift 0.0 and fatigue 1.0; each map covers exactly the tracked-finger set.
C10_NeutralEntries ==
    pc = "done" =>
        /\ DOMAIN tremor = Fingers
        /\ DOMAIN drift = Fingers
        /\ DOMAIN fatigue = Fingers
        /\ \A f \in Fingers :
              ~Usable(f) =>
                  /\ tremor[f] = 0
                  /\ drift[f] = 0
                  /\ fatigue[f] = 1 * SCALE

\* the pipeline ran on an input with a finger with an empty trajectory and a
\* baseline, a finger with samples and no baseline, and a finger with usable data
C10_Witness ==
    /\ pc = "done"
    /\ \E f \in Fingers :
          f \in DOMAIN raw_data /\ raw_data[f] = <<>> /\ f \in DOMAIN baseline_positions
    /\ \E f \in Fingers :
          f \in DOMAIN raw_data /\ raw_data[f] # <<>> /\ f \notin DOMAIN baseline_positions
    /\ \E f \in Fingers : Usable(f) /\ tremor[f] > 0

---------------------------------------------------------------------------
(* The scorer over the pipeline's metric maps *)

\* the finger has an empty (or no) trajectory and a baseline
EmptyWithBaseline(f) ==
    /\ DictGet(raw_data, f, <<>>) = <<>>
    /\ f \in DOMAIN baseline_positions

\* the dict without the key
Without(d, key) == [k \in DOMAIN d \ {key} |-> d[k]]

\* m is the mean of the dict's values, rounded toward zero
IsMeanOf(m, d) ==
    LET n == Cardinality(DOMAIN d)
        total == SumValues(d, DOMAIN d)
    IN  IF n = 0 THEN m = 0
        ELSE /\ Abs(m) * n <= Abs(total)
             /\ Abs(total) < (Abs(m) + 1) * n
             /\ (m > 0 => total > 0)
             /\ (m < 0 => total < 0)

\* C11: a tracked finger with an empty trajectory and a valid baseline gets
\* tremor 0.0, drift 0.0 and fatigue 1.0 and counts in the whole-hand means like
\* every other finger; the score with it is never lower than the score computed
\* from the other fingers' metrics alone.
C11_EmptyFingerAveraged ==
    pc = "done" =>
        \A f \in Fingers :
            EmptyWithBaseline(f) =>
                /\ f \in DOMAIN tremor /\ tremor[f] = 0
                /\ f \in DOMAIN drift /\ drift[f] = 0
                /\ f \in DOMAIN fatigue /\ fatigue[f] = 1 * SCALE
                /\ IsMeanOf(breakdown.avg_tremor, tremor)
                /\ IsMeanOf(breakdown.avg_drift, drift)
                /\ IsMeanOf(breakdown.avg_fatigue, fatigue)
                /\ stability_score >=
                      compute_stability_score(Without(tremor, f), Without(drift, f),
                                              Without(fatigue, f)).stability_score

\* scenario B next to a finger with data: the empty finger lowers the mean tremor
\* and the score is strictly higher than the one of the other fingers alone
C11_Witness ==
    /\ pc = "done"
    /\ \E f \in Fingers :
          /\ EmptyWithBaseline(f)
          /\ f \in DOMAIN raw_data
          /\ \E g \in Fingers : Usable(g) /\ tremor[g] > 0 /\ fatigue[g] > 1 * SCALE
          /\ stability_score >
                compute_stability_score(Without(tremor, f), Without(drift, f),
                                        Without(fatigue, f)).stability_score

---------------------------------------------------------------------------
(* The extractors over arbitrary displacement maps *)

\* keys of the enumerated displacement maps: one tracked finger, one that is not
ExtractKeys == {"THUMB", "PINKY"}

SeriesVals ==
    {<<>>, <<<<Seconds(0), 300>>>>, <<<<Seconds(0), 300>>, <<Seconds(10), 500>>>>}

InitExtract ==
    /\ config = ShippedConfig
    /\ raw_data = EmptyDict
    /\ baseline_positions = EmptyDict
    /\ displacement_ts \in Dicts(ExtractKeys, SeriesVals)
    /\ tremor = EmptyDict
    /\ drift = EmptyDict
    /\ fatigue = EmptyDict
    /\ stability_score = 0
    /\ breakdown = EmptyDict
    /\ pc = "displacement"
    /\ AppOff

\* the extractors are called with the deriver's output or with any other map
SpecExtract == (Init \/ InitExtract) /\ [][Next]_vars

\* the displacement map is what the deriver returns for the inputs
FromDeriver ==
    displacement_ts = compute_displacement_time_series(raw_data, baseline_positions)

\* C12: each extractor returns a map with exactly the keys of the displacement
\* map it was given; with the deriver's output no metric map has a key outside
\* the configured tracked-finger set, whatever keys raw_data and
\* baseline_positions carry.
C12_MetricKeys ==
    /\ pc \in {"tremor", "drift", "fatigue", "done"} =>
            DOMAIN tremor = DOMAIN displacement_ts
    /\ pc \in {"drift", "fatigue", "done"} => DOMAIN drift = DOMAIN displacement_ts
    /\ pc \in {"fatigue", "done"} => DOMAIN fatigue = DOMAIN displacement_ts
    /\ (pc # "start" /\ FromDeriver) =>
            /\ DOMAIN tremor \subseteq Fingers
            /\ DOMAIN drift \subseteq Fingers
            /\ DOMAIN fatigue \subseteq Fingers

\* a map that has a key outside the tracked set and lacks a tracked finger went
\* through the three extractors
C12_Witness ==
    /\ pc = "fatigue"
    /\ "PINKY" \in DOMAIN displacement_ts
    /\ "THUMB" \notin DOMAIN displacement_ts
    /\ Len(displacement_ts["PINKY"]) = 2
    /\ DOMAIN tremor = {"PINKY"}
    /\ DOMAIN drift = {"PINKY"}
    /\ DOMAIN fatigue = {"PINKY"}

---------------------------------------------------------------------------
(* The scorer under other weights *)

\* a weight triple, written in tenths of a millionth
Weights(t, d, f) == [w_t |-> t, w_d |-> d, w_f |-> f]

ShippedWeights == Weights((4 * WSCALE) \div 10, (3 * WSCALE) \div 10, (3 * WSCALE) \div 10)

\* (1/3, 1/3, 1/3)
Thirds == Weights(WSCALE \div 3, WSCALE \div 3, WSCALE \div 3)

\* (0.8, 0.8, 0.8)
Eighths == Weights((8 * WSCALE) \div 10, (8 * WSCALE) \div 10, (8 * WSCALE) \div 10)

\* (0.3, 0.3, 0.1): the sum is 0.7
Uneven == Weights((3 * WSCALE) \div 10, (3 * WSCALE) \div 10, (1 * WSCALE) \div 10)

\* (0.4, 0.3, 0.2999995): the sum is 0.9999995, within 1e-6 of 1
NearOne == Weights((4 * WSCALE) \div 10, (3 * WSCALE) \div 10, (3 * WSCALE) \div 10 - 5)

Times(k, w) == Weights(k * w.w_t, k * w.w_d, k * w.w_f)

Factors == {2, 3}

WeightTriples ==
    {ShippedWeights, Thirds, Eighths, Uneven, NearOne}
        \cup {Times(2, w) : w \in {ShippedWeights, Uneven, NearOne}}
        \cup {Times(3, ShippedWeights)}

ConfigWeights(c) == Weights(c.WEIGHT_TREMOR, c.WEIGHT_DRIFT, c.WEIGHT_FATIGUE)

WithWeights(c, w) ==
    [c EXCEPT !.WEIGHT_TREMOR = w.w_t, !.WEIGHT_DRIFT = w.w_d, !.WEIGHT_FATIGUE = w.w_f]

WeightKeys == {"THUMB"}

InitWeights ==
    /\ \E w \in WeightTriples : config = WithWeights(ShippedConfig, w)
    /\ raw_data = EmptyDict
    /\ baseline_positions = EmptyDict
    /\ displacement_ts = EmptyDict
    /\ tremor \in Dicts(WeightKeys, TremorVals)
    /\ drift \in Dicts(WeightKeys, DriftVals)
    /\ fatigue \in Dicts(WeightKeys, FatigueVals)
    /\ stability_score = 0
    /\ breakdown = EmptyDict
    /\ pc = "fatigue"
    /\ AppOff

\* compute_stability_score is called again on the same maps once the weights of
\* the configuration were replaced by w
Rescore(w) ==
    /\ pc = "done"
    /\ config' = WithWeights(config, w)
    /\ UNCHANGED <<raw_data, baseline_positions, displacement_ts, tremor, drift, fatigue>>
    /\ UNCHANGED appVars
    /\ stability_score' = (compute_stability_score(tremor, drift, fatigue).stability_score)'
    /\ breakdown' = (compute_stability_score(tremor, drift, fatigue).breakdown)'
    /\ pc' = "rescored"

\* all three weights are multiplied by the same constant, k or 1 / k
RescoreScaled ==
    \E w \in WeightTriples, k \in Factors :
        /\ \/ w = Times(k, ConfigWeights(config))
           \/ ConfigWeights(config) = Times(k, w)
        /\ Rescore(w)

\* the weights (0.8, 0.8, 0.8) are replaced by (1/3, 1/3, 1/3)
RescoreThirds ==
    /\ ConfigWeights(config) = Eighths
    /\ Rescore(Thirds)

NextWeights == Score \/ RescoreScaled \/ RescoreThirds

SpecWeights == InitWeights /\ [][NextWeights]_vars

SumOf(w) == w.w_t + w.w_d + w.w_f

\* the sum of the weights is 1, or differs from 1 by more than 1e-6
OutsideTolerance(w) == SumOf(w) = 1 * WSCALE \/ WGtEps(Abs(SumOf(w) - 1 * WSCALE))

IsScaling(w1, w2) == \E k \in Factors : w2 = Times(k, w1) \/ w1 = Times(k, w2)

\* the step that scores again under weights that are a multiple of the old ones
ScaledStep ==
    /\ pc = "done"
    /\ pc' = "rescored"
    /\ IsScaling(ConfigWeights(config), ConfigWeights(config'))

ThirdsStep ==
    /\ pc = "done"
    /\ pc' = "rescored"
    /\ ConfigWeights(config) = Eighths
    /\ ConfigWeights(config') = Thirds

SameResult ==
    /\ stability_score' = stability_score
    /\ breakdown'.weighted_penalty = breakdown.weighted_penalty

\* C13 as stated: multiplying all three weights by the same positive constant
\* leaves weighted_penalty and stability_score unchanged, for any positive triple.
C13_Original == [][ScaledStep => SameResult]_vars

\* C13: multiplying all three weights by the same positive constant leaves
\* weighted_penalty and stability_score unchanged when neither triple has a sum
\* within 1e-6 of 1 without being 1 (such a triple is used as it is, not divided
\* by its sum); weights (0.8, 0.8, 0.8) give the same result as (1/3, 1/3, 1/3).
C13_ScalingInvariant ==
    [][(\/ /\ ScaledStep
           /\ OutsideTolerance(ConfigWeights(config))
           /\ OutsideTolerance(ConfigWeights(config'))
        \/ ThirdsStep) => SameResult]_vars

\* the maps were scored under (0.3, 0.3, 0.1) and again under (0.6, 0.6, 0.2), with
\* a penalty that is neither 0 nor 1
C13_Witness ==
    /\ pc = "rescored"
    /\ ConfigWeights(config) = Times(2, Uneven)
    /\ breakdown.penalty_tremor > 0
    /\ breakdown.penalty_fatigue > 0
    /\ breakdown.penalty_drift < breakdown.penalty_tremor
    /\ stability_score > 0
    /\ stability_score < 100 * SCALE

Scored == pc \in {"done", "rescored"}

BreakdownKeys ==
    {"avg_tremor", "avg_drift", "avg_fatigue", "penalty_tremor", "penalty_drift",
     "penalty_fatigue", "weighted_penalty"}

\* s is 100 * (1 - wp) clamped to [0, 100], rounded down to a unit of the score
IsScoreOf(s, wp) ==
    LET unit == WSCALE \div SCALE
    IN  IF wp >= 1 * WSCALE THEN s = 0
        ELSE IF wp <= 0 THEN s = 100 * SCALE
        ELSE /\ s * unit <= 100 * (1 * WSCALE - wp)
             /\ 100 * (1 * WSCALE - wp) < (s + 1) * unit

\* scenario C: equal-third weights, tremor 0.03, drift 0.0, fatigue 1.0
ScenarioC ==
    /\ ConfigWeights(config) = Thirds
    /\ config.TREMOR_MAX_EXPECTED = (5 * SCALE) \div 100
    /\ tremor = ("THUMB" :> (3 * SCALE) \div 100)
    /\ drift = ("THUMB" :> 0)
    /\ fatigue = ("THUMB" :> 1 * SCALE)

\* C14: the breakdown holds the three means, the three penalties and the weighted
\* penalty; weighted_penalty is the sum of each (renormalised) weight times the
\* penalty in the breakdown, and stability_score is 100 * (1 - weighted_penalty)
\* clamped to [0,100]. In scenario C the penalties are (0.6, 0, 0), the weighted
\* penalty is 0.2 (to the last digit of the weights) and the score is 80.
C14_BreakdownConsistent ==
    Scored =>
        /\ DOMAIN breakdown = BreakdownKeys
        /\ IsMeanOf(breakdown.avg_tremor, tremor)
        /\ IsMeanOf(breakdown.avg_drift, drift)
        /\ IsMeanOf(breakdown.avg_fatigue, fatigue)
        /\ InUnit(breakdown.penalty_tremor)
        /\ InUnit(breakdown.penalty_drift)
        /\ InUnit(breakdown.penalty_fatigue)
        /\ breakdown.weighted_penalty =
              WMul(score_weights.w_t, breakdown.penalty_tremor)
              + WMul(score_weights.w_d, breakdown.penalty_drift)
              + WMul(score_weights.w_f, breakdown.penalty_fatigue)
        /\ IsScoreOf(stability_score, breakdown.weighted_penalty)
        /\ ScenarioC =>
              /\ breakdown.penalty_tremor = (6 * SCALE) \div 10
              /\ breakdown.penalty_drift = 0
              /\ breakdown.penalty_fatigue = 0
              /\ Abs(breakdown.weighted_penalty - (2 * WSCALE) \div 10) <= 1
              /\ stability_score = 80 * SCALE

\* scenario C was scored
C14_Witness ==
    /\ pc = "done"
    /\ ScenarioC
    /\ stability_score = 80 * SCALE
    /\ breakdown.penalty_tremor = (6 * SCALE) \div 10

---------------------------------------------------------------------------
(* The penalties *)

Negate(d) == [k \in DOMAIN d |-> -d[k]]

\* C15: penalty_drift depends on the magnitude of the mean of the signed drifts
\* only: it is |avg_drift| / DRIFT_MAX_EXPECTED clamped to [0,1], and the scorer
\* returns the same penalty_drift, weighted_penalty and stability_score for the
\* drift map with every entry negated.
C15_DriftSign ==
    pc = "done" =>
        LET negated == compute_stability_score(tremor, Negate(drift), fatigue)
            magnitude == Abs(breakdown.avg_drift)
        IN  /\ IF magnitude >= config.DRIFT_MAX_EXPECTED
               THEN breakdown.penalty_drift = 1 * SCALE
               ELSE IsQuotient(breakdown.penalty_drift, magnitude,
                               config.DRIFT_MAX_EXPECTED)
            /\ negated.breakdown.avg_drift = -breakdown.avg_drift
            /\ negated.breakdown.penalty_drift = breakdown.penalty_drift
            /\ negated.breakdown.weighted_penalty = breakdown.weighted_penalty
            /\ negated.stability_score = stability_score

\* drifts of both signs with a negative mean were scored, with a penalty that is
\* neither 0 nor 1
C15_Witness ==
    /\ pc = "done"
    /\ \E f, g \in DOMAIN drift : drift[f] < 0 /\ drift[g] > 0
    /\ breakdown.avg_drift < 0
    /\ breakdown.penalty_drift > 0
    /\ breakdown.penalty_drift < 1 * SCALE

\* C16: penalty_fatigue is 0 for a mean fatigue <= 1.0, 1 for a mean fatigue >=
\* FATIGUE_MAX_EXPECTED and (avg_fatigue - 1) / (FATIGUE_MAX_EXPECTED - 1) between
\* the two; no larger mean fatigue gets a smaller penalty.
C16_FatiguePenalty ==
    pc = "done" =>
        LET avg == breakdown.avg_fatigue
            p == breakdown.penalty_fatigue
            max_val == config.FATIGUE_MAX_EXPECTED
        IN  /\ avg <= 1 * SCALE => p = 0
            /\ avg >= max_val => p = 1 * SCALE
            /\ (1 * SCALE < avg /\ avg < max_val) =>
                    IsQuotient(p, avg - 1 * SCALE, max_val - 1 * SCALE)
            /\ \A m \in Dicts(ScoreKeys, FatigueVals) :
                    _average_metric(m) >= avg =>
                        _normalize_fatigue(_average_metric(m)) >= p

\* a mean fatigue on the ramp of the wider range: (1.75 - 1) / (3 - 1)
C16_Witness ==
    /\ pc = "done"
    /\ config.FATIGUE_MAX_EXPECTED = 3 * SCALE
    /\ breakdown.avg_fatigue = (175 * SCALE) \div 100
    /\ breakdown.penalty_fatigue = (375 * SCALE) \div 1000

---------------------------------------------------------------------------
(* The pipeline under other configurations *)

TremorMaxima == {0, -((5 * SCALE) \div 100), (5 * SCALE) \div 100}

DriftMaxima == {0, (1 * SCALE) \div 10}

FatigueMaxima == {0, -(1 * SCALE), 2 * SCALE}

FingerSets == {<<>>, <<"THUMB", "INDEX", "MIDDLE">>}

Configs ==
    {[ShippedConfig EXCEPT !.TREMOR_MAX_EXPECTED = t, !.DRIFT_MAX_EXPECTED = d,
                           !.FATIGUE_MAX_EXPECTED = f, !.FINGERS_TO_TRACK = fs] :
        t \in TremorMaxima, d \in DriftMaxima, f \in FatigueMaxima, fs \in FingerSets}

ConfigInputs == FixedInputs \cup {[raw |-> c.raw, base |-> c.base] : c \in Contexts}

InitConfig ==
    /\ config \in Configs
    /\ \E c \in ConfigInputs :
          /\ baseline_positions = c.base
          /\ raw_data = c.raw
    /\ displacement_ts = EmptyDict
    /\ tremor = EmptyDict
    /\ drift = EmptyDict
    /\ fatigue = EmptyDict
    /\ stability_score = 0
    /\ breakdown = EmptyDict
    /\ pc = "start"
    /\ AppOff

SpecConfig == (Init \/ InitConfig) /\ [][Next]_vars

InvalidConfig ==
    \/ config.TREMOR_MAX_EXPECTED <= 0
    \/ config.DRIFT_MAX_EXPECTED <= 0
    \/ config.FATIGUE_MAX_EXPECTED <= 0
    \/ config.FINGERS_TO_TRACK = <<>>

\* C17: under a configuration with a normalization maximum that is zero or
\* negative, or with an empty tracked-finger set, the pipeline stops with an error:
\* it never returns a stability score.
C17_FatalConfig == InvalidConfig => pc # "done"

IsNumber(v) == v \in Int /\ v # NaN

AllNumbers(d) == \A k \in DOMAIN d : IsNumber(d[k])

\* no tracked finger has both samples and a baseline
NoData == \A f \in Fingers : ~Usable(f)

\* every stage that ran returned a value for each tracked finger
StagesReturned ==
    /\ pc # "start" => DOMAIN displacement_ts = Fingers
    /\ pc \in {"tremor", "drift", "fatigue", "done"} => DOMAIN tremor = Fingers
    /\ pc \in {"drift", "fatigue", "done"} => DOMAIN drift = Fingers
    /\ pc \in {"fatigue", "done"} => DOMAIN fatigue = Fingers
    /\ pc = "done" => DOMAIN breakdown = BreakdownKeys

\* every value the stages have returned is a number
NumbersOnly ==
    /\ \A f \in DOMAIN displacement_ts :
          \A i \in DOMAIN displacement_ts[f] :
             IsNumber(displacement_ts[f][i][1]) /\ IsNumber(displacement_ts[f][i][2])
    /\ AllNumbers(tremor) /\ AllNumbers(drift) /\ AllNumbers(fatigue)
    /\ IsNumber(stability_score)
    /\ pc = "done" => AllNumbers(breakdown)

\* C18: for every raw input (missing baselines, empty trajectories, single
\* samples, samples at one timestamp, all-zero early displacements) every stage of
\* the pipeline returns, and every value it returns is a number; when no tracked
\* finger has data, or the three metric maps are empty, the penalties are 0 and
\* the stability score is exactly 100.
C18_NeverRaises ==
    /\ StagesReturned
    /\ NumbersOnly
    /\ pc = "done" =>
          ((NoData \/ (tremor = EmptyDict /\ drift = EmptyDict /\ fatigue = EmptyDict)) =>
                /\ breakdown.penalty_tremor = 0
                /\ breakdown.penalty_drift = 0
                /\ breakdown.penalty_fatigue = 0
                /\ breakdown.weighted_penalty = 0
                /\ stability_score = 100 * SCALE)

\* three tracked fingers, one with a sample and no baseline, none with data that
\* can be used: the score is 100
C18_Witness ==
    /\ pc = "done"
    /\ Fingers # {}
    /\ NoData
    /\ \E f \in Fingers :
          f \in DOMAIN raw_data /\ raw_data[f] # <<>> /\ f \notin DOMAIN baseline_positions
    /\ DOMAIN tremor = Fingers
    /\ stability_score = 100 * SCALE

---------------------------------------------------------------------------
(* Tremor *)

TremorComputed == pc \in {"tremor", "drift", "fatigue", "done"}

\* C19: compute_tremor_metrics gives each finger the root mean square of all the
\* displacements of its series and exactly 0.0 for an empty series; every
\* displacement the deriver emits and every tremor value is >= 0.
C19_TremorRms ==
    /\ \A f \in DOMAIN displacement_ts :
          \A i \in DOMAIN displacement_ts[f] : displacement_ts[f][i][2] >= 0
    /\ TremorComputed =>
          \A f \in DOMAIN displacement_ts :
             /\ f \in DOMAIN tremor
             /\ tremor[f] >= 0
             /\ IF displacement_ts[f] = <<>>
                THEN tremor[f] = 0
                ELSE IsRms(tremor[f], series_displacements(displacement_ts[f]))

\* a series of three displacements, one of them 0, next to an empty series: the
\* tremor lies strictly between the least and the greatest
C19_Witness ==
    /\ pc = "tremor"
    /\ \E f, g \in DOMAIN displacement_ts :
          LET d == series_displacements(displacement_ts[f])
          IN  /\ Len(d) = 3
              /\ MinSeq(d) = 0
              /\ MaxSeq(d) > 0
              /\ tremor[f] > MinSeq(d)
              /\ tremor[f] < MaxSeq(d)
              /\ displacement_ts[g] = <<>>
              /\ tremor[g] = 0

---------------------------------------------------------------------------
(* core/mediapipe_utils.py *)

\* the names the module defines: what mediapipe_utils.<name> finds
mediapipe_utils_names ==
    {"FINGERTIP_INDICES", "_extract_fingertip_coords", "MediaPipeHandProcessor",
     "init_webrtc_stream", "get_latest_frame_and_fingertips"}

\* no exception
NoError == ""

\* looking up a name the module does not define raises AttributeError
Lookup(name) == IF name \in mediapipe_utils_names THEN NoError ELSE "AttributeError"

FINGERTIP_INDICES == ("THUMB" :> 4) @@ ("INDEX" :> 8) @@ ("MIDDLE" :> 12)

\* max(0.0, min(1.0, v))
Clamp(v) == Max(0, Min(1 * SCALE, v))

_extract_fingertip_coords(landmarks) ==
    [finger_name \in Fingers \cap DOMAIN FINGERTIP_INDICES |->
        LET lm == landmarks[FINGERTIP_INDICES[finger_name]]
        IN  <<Clamp(lm[1]), Clamp(lm[2])>>]

\* the 21 landmarks of a detected hand, all at one point
HandAt(x, y) == [i \in 0..20 |-> <<x, y>>]

\* what hands.process(frame_rgb) finds in a frame: no hand, or the landmarks of the
\* first hand, which may lie outside the frame
Detections == {None, HandAt(5000, 5000), HandAt(5300, 10400)}

\* fingertips of recv, lines 98-101
FingertipsOf(multi_hand_landmarks) ==
    IF multi_hand_landmarks = None THEN None
    ELSE _extract_fingertip_coords(multi_hand_landmarks)

\* the fingertips a poll of the stream can return (get_latest_frame_and_fingertips)
PollResults == {FingertipsOf(d) : d \in Detections}

\* frames the worker receives in one stream
MaxFrames == 3

\* threading.Lock: acquire blocks while another thread holds the lock
CanAcquire_Always(p, thread) == TRUE

CanAcquire(p, thread) == p._lock = "free"

\* recv, lines 94-109: the frame is converted and searched for a hand
RecvBegin ==
    /\ worker.pc = "idle"
    /\ Cardinality(history.stored) < MaxFrames
    /\ \E d \in Detections :
          worker' = [pc |-> "lock",
                     frame_rgb |-> <<Cardinality(history.stored) + 1>>,
                     fingertips |-> FingertipsOf(d)]
    /\ UNCHANGED <<config, raw_data, baseline_positions, displacement_ts, tremor, drift,
                   fatigue, stability_score, breakdown, pc, session_state, run,
                   processor, history>>

\* recv, line 111
RecvLock ==
    /\ worker.pc = "lock"
    /\ CanAcquire(processor, "worker")
    /\ processor' = [processor EXCEPT !._lock = "worker"]
    /\ worker' = [worker EXCEPT !.pc = "frame"]
    /\ UNCHANGED <<config, raw_data, baseline_positions, displacement_ts, tremor, drift,
                   fatigue, stability_score, breakdown, pc, session_state, run, history>>

\* recv, line 112
RecvStoreFrame ==
    /\ worker.pc = "frame"
    /\ processor' = [processor EXCEPT !.latest_frame_rgb = worker.frame_rgb]
    /\ worker' = [worker EXCEPT !.pc = "fingertips"]
    /\ UNCHANGED <<config, raw_data, baseline_positions, displacement_ts, tremor, drift,
                   fatigue, stability_score, breakdown, pc, session_state, run, history>>

\* recv, line 113
RecvStoreFingertips ==
    /\ worker.pc = "fingertips"
    /\ processor' = [processor EXCEPT !.latest_fingertips = worker.fingertips]
    /\ worker' = [worker EXCEPT !.pc = "unlock"]
    /\ history' = [history EXCEPT
                      !.stored = @ \cup {<<worker.fingertips, worker.frame_rgb>>}]
    /\ UNCHANGED <<config, raw_data, baseline_positions, displacement_ts, tremor, drift,
                   fatigue, stability_score, breakdown, pc, session_state, run>>

\* recv, the end of the with block and lines 115-117
RecvUnlock ==
    /\ worker.pc = "unlock"
    /\ processor' = [processor EXCEPT !._lock = "free"]
    /\ worker' = IdleWorker
    /\ UNCHANGED <<config, raw_data, baseline_positions, displacement_ts, tremor, drift,
                   fatigue, stability_score, breakdown, pc, session_state, run, history>>

\* a page thread calls get_latest: line 129
GetLatestLock ==
    /\ run.page = "poll"
    /\ run.pc \in {"idle", "returned"}
    /\ CanAcquire(processor, "page")
    /\ processor' = [processor EXCEPT !._lock = "page"]
    /\ run' = [page |-> "poll", pc |-> "test"]
    /\ UNCHANGED <<config, raw_data, baseline_positions, displacement_ts, tremor, drift,
                   fatigue, stability_score, breakdown, pc, session_state, worker, history>>

\* get_latest, lines 130-131; seen is what recv calls had stored by then
GetLatestTest ==
    /\ run.page = "poll"
    /\ run.pc = "test"
    /\ run' = IF processor.latest_frame_rgb = None
              THEN [page |-> "poll", pc |-> "unlock", fingertips |-> None, frame |-> None,
                    seen |-> history.stored]
              ELSE [page |-> "poll", pc |-> "fingertips", seen |-> history.stored]
    /\ UNCHANGED <<config, raw_data, baseline_positions, displacement_ts, tremor, drift,
                   fatigue, stability_score, breakdown, pc, session_state, processor,
                   worker, history>>

\* get_latest, line 132: the first element of the returned tuple
GetLatestFingertips ==
    /\ run.page = "poll"
    /\ run.pc = "fingertips"
    /\ run' = [page |-> "poll", pc |-> "frame", fingertips |-> processor.latest_fingertips,
               seen |-> run.seen]
    /\ UNCHANGED <<config, raw_data, baseline_positions, displacement_ts, tremor, drift,
                   fatigue, stability_score, breakdown, pc, session_state, processor,
                   worker, history>>

\* get_latest, line 132: the second element, a copy of the stored frame
GetLatestFrame ==
    /\ run.page = "poll"
    /\ run.pc = "frame"
    /\ run' = [page |-> "poll", pc |-> "unlock", fingertips |-> run.fingertips,
               frame |-> processor.latest_frame_rgb, seen |-> run.seen]
    /\ UNCHANGED <<config, raw_data, baseline_positions, displacement_ts, tremor, drift,
                   fatigue, stability_score, breakdown, pc, session_state, processor,
                   worker, history>>

\* get_latest returns: the end of the with block
GetLatestUnlock ==
    /\ run.page = "poll"
    /\ run.pc = "unlock"
    /\ processor' = [processor EXCEPT !._lock = "free"]
    /\ run' = [run EXCEPT !.pc = "returned"]
    /\ UNCHANGED <<config, raw_data, baseline_positions, displacement_ts, tremor, drift,
                   fatigue, stability_score, breakdown, pc, session_state, worker, history>>

\* a stream was started, its processor constructed, and a page polls it
InitProcessor ==
    /\ config = ShippedConfig
    /\ raw_data = EmptyDict
    /\ baseline_positions = EmptyDict
    /\ displacement_ts = EmptyDict
    /\ tremor = EmptyDict
    /\ drift = EmptyDict
    /\ fatigue = EmptyDict
    /\ stability_score = 0
    /\ breakdown = EmptyDict
    /\ pc = "idle"
    /\ session_state = EmptyDict
    /\ run = [page |-> "poll", pc |-> "idle"]
    /\ processor = NewProcessor
    /\ worker = IdleWorker
    /\ history = NoHistory

NextProcessor ==
    \/ RecvBegin \/ RecvLock \/ RecvStoreFrame \/ RecvStoreFingertips \/ RecvUnlock
    \/ GetLatestLock \/ GetLatestTest \/ GetLatestFingertips \/ GetLatestFrame
    \/ GetLatestUnlock

SpecProcessor == InitProcessor /\ [][NextProcessor]_vars

\* get_latest has returned to the page
Returned == run.page = "poll" /\ run.pc = "returned"

\* C22: under every interleaving of recv on the worker thread and get_latest on a
\* page thread, get_latest returns (None, None) when no recv had stored a frame
\* when it looked, and otherwise a (fingertips, frame) pair that one recv call stored
\* together
C22_PairsTogether ==
    Returned =>
        IF run.seen = {}
        THEN <<run.fingertips, run.frame>> = <<None, None>>
        ELSE <<run.fingertips, run.frame>> \in run.seen

\* get_latest returned the fingertips and the image of the second frame while the
\* worker, which had found no hand in the first frame, was storing a third
C22_Witness ==
    /\ Returned
    /\ run.fingertips # None
    /\ run.frame = <<2>>
    /\ <<None, <<1>>>> \in run.seen
    /\ worker.pc = "fingertips"

---------------------------------------------------------------------------
(* The pages: pages/1_Calibration.py, pages/2_Live_Test.py, pages/3_Results.py. *)
(* Streamlit runs one page script at a time in a session and keeps             *)
(* st.session_state between the runs; a button press or a navigation starts a  *)
(* new run and ends the running one at its next call into Streamlit, which the *)
(* capture loops make in every iteration.  The keys of the stream component    *)
(* (active_page, calibration_webrtc_key) are left out: no page reads them for  *)
(* anything but the component's identity.                                      *)

\* samples of a finger that one recording collects
MaxPolls == 2

\* samples of a finger that one calibration collects
MaxSamples == 1

\* no list of the dict holds more than n samples
Within(d, n) == \A finger \in DOMAIN d : Len(d[finger]) <= n

\* page runs of one session
MaxRuns == 4

\* config.CALIBRATION_DURATION_SECONDS
CALIBRATION_DURATION_SECONDS == Seconds(3)

\* the results page's variables
pipeVars == <<raw_data, baseline_positions, displacement_ts, tremor, drift, fatigue,
              stability_score, breakdown, pc>>

\* d[key] = value
SetItem(d, key, value) == (key :> value) @@ d

\* if key not in d: d[key] = value
SetDefault(d, key, value) == IF key \in DOMAIN d THEN d ELSE SetItem(d, key, value)

\* {finger: [] for finger in config.FINGERS_TO_TRACK}
EmptySeries == [finger \in Fingers |-> <<>>]

\* values of time.time() - start_time: the system clock, which the operating system
\* may set forward or back between two readings
Clock == {Seconds(0), Seconds(10), Seconds(32)}

\* np.mean
np_mean(values) == SumSeq(values) \div Len(values)

\* a script run begins: the previous run's variables are gone
BeginRun ==
    /\ pc \in {"idle", "done"}
    /\ history.runs < MaxRuns
    /\ raw_data' = EmptyDict
    /\ baseline_positions' = EmptyDict
    /\ displacement_ts' = EmptyDict
    /\ tremor' = EmptyDict
    /\ drift' = EmptyDict
    /\ fatigue' = EmptyDict
    /\ stability_score' = 0
    /\ breakdown' = EmptyDict
    /\ pc' = "idle"
    /\ UNCHANGED <<config, processor, worker>>

\* a page script ended: by reaching its end or st.stop(), or by an exception
Ended(page, raised, reported) ==
    [page |-> page, pc |-> IF raised = NoError THEN "finished" ELSE "error",
     raised |-> raised, reported |-> reported]

\* 1_Calibration.py, lines 38-43
CalibrationInit(ss) ==
    SetDefault(SetDefault(ss, "calibration_complete", FALSE),
               "baseline_positions", EmptyDict)

\* 1_Calibration.py without a capture: no button pressed, Reconnect Camera, or Run
\* Calibration while the camera is not playing (lines 117-120)
CalibrationPage ==
    /\ BeginRun
    /\ session_state' = CalibrationInit(session_state)
    /\ \E camera_off \in BOOLEAN :
          run' = Ended("calibration", NoError,
                       IF camera_off THEN "error"
                       ELSE IF session_state'["calibration_complete"] THEN "success"
                       ELSE "none")
    /\ history' = [history EXCEPT !.runs = @ + 1]

\* Run Calibration with the camera playing: lines 38-43 and 122-129
StartCalibration ==
    /\ BeginRun
    /\ session_state' = SetItem(CalibrationInit(session_state), "calibration_complete", FALSE)
    /\ run' = [page |-> "calibration", pc |-> "capturing", samples |-> EmptyDict,
               raised |-> NoError, reported |-> "info"]
    /\ history' = [history EXCEPT !.runs = @ + 1]

\* lines 155-158: samples[finger_name].append((x, y)) for the tracked fingers
calibration_samples(samples, fingertip_positions) ==
    IF fingertip_positions = None THEN samples
    ELSE LET hit == DOMAIN fingertip_positions \cap Fingers
         IN  [finger_name \in DOMAIN samples \cup hit |->
                 IF finger_name \in hit
                 THEN Append(DictGet(samples, finger_name, <<>>),
                             fingertip_positions[finger_name])
                 ELSE samples[finger_name]]

\* one iteration of the loop of lines 132-163
CalibrationPoll ==
    /\ run.page = "calibration"
    /\ run.pc = "capturing"
    /\ \E elapsed \in Clock, fingertip_positions \in PollResults :
          /\ elapsed < CALIBRATION_DURATION_SECONDS
          /\ run' = [run EXCEPT !.samples = calibration_samples(@, fingertip_positions)]
          /\ Within(run'.samples, MaxSamples)
    /\ UNCHANGED <<session_state, processor, worker, history>>
    /\ UNCHANGED <<config, pipeVars>>

\* lines 173-180
calibration_baseline(samples) ==
    [finger_name \in {f \in Fingers : Len(DictGet(samples, f, <<>>)) # 0} |->
        LET coords == samples[finger_name]
            xs == [i \in DOMAIN coords |-> coords[i][1]]
            ys == [i \in DOMAIN coords |-> coords[i][2]]
        IN  <<np_mean(xs), np_mean(ys)>>]

\* lines 182-190 with every result stored, an empty one too
calibration_result_Always(ss, baseline) ==
    SetItem(SetItem(ss, "baseline_positions", baseline), "calibration_complete", TRUE)

\* lines 182-190
calibration_result(ss, baseline) ==
    IF Cardinality(DOMAIN baseline) = 0 THEN ss
    ELSE SetItem(SetItem(ss, "baseline_positions", baseline), "calibration_complete", TRUE)

\* the loop ends (line 134) and lines 165-216: the baseline is computed and stored and
\* the page asks for the Live Test page, which like every navigation is a later run
CalibrationFinish ==
    /\ run.page = "calibration"
    /\ run.pc = "capturing"
    /\ \E elapsed \in Clock : elapsed >= CALIBRATION_DURATION_SECONDS
    /\ LET baseline == calibration_baseline(run.samples)
       IN  /\ session_state' = calibration_result(session_state, baseline)
           /\ run' = [page |-> "calibration", pc |-> "finished", samples |-> run.samples,
                      raised |-> NoError,
                      reported |-> IF Cardinality(DOMAIN baseline) = 0 THEN "error"
                                   ELSE "success"]
           /\ history' = IF session_state' = session_state THEN history
                         ELSE [history EXCEPT !.sampled = DOMAIN run.samples]
    /\ UNCHANGED <<processor, worker>>
    /\ UNCHANGED <<config, pipeVars>>

\* 2_Live_Test.py, lines 34-36
HasBaseline(ss) == DictGet(ss, "baseline_positions", EmptyDict) # EmptyDict

\* 2_Live_Test.py, lines 46-60
LiveTestInit(ss) ==
    SetDefault(SetDefault(SetDefault(ss, "webrtc_key_live_counter", 0),
                          "test_complete", FALSE),
               "raw_time_series", EmptySeries)

\* 2_Live_Test.py without a baseline: lines 34-40
LiveTestBlocked ==
    /\ BeginRun
    /\ ~HasBaseline(session_state)
    /\ run' = Ended("live_test", NoError, "error")
    /\ history' = [history EXCEPT !.runs = @ + 1]
    /\ UNCHANGED session_state

\* 2_Live_Test.py without a recording: no button pressed, or Start Live Test while
\* the camera is not playing (lines 116-119)
LiveTestPage ==
    /\ BeginRun
    /\ HasBaseline(session_state)
    /\ session_state' = LiveTestInit(session_state)
    /\ \E camera_off \in BOOLEAN :
          run' = Ended("live_test", NoError,
                       IF camera_off THEN "error"
                       ELSE IF session_state'["test_complete"] THEN "success"
                       ELSE "none")
    /\ history' = [history EXCEPT !.runs = @ + 1]

\* the handler of Reset Camera, lines 86-93
reset_camera(ss) ==
    IF Lookup("stop_webrtc_stream") # NoError THEN ss
    ELSE SetItem(SetItem(SetItem(ss, "webrtc_key_live_counter",
                                 ss["webrtc_key_live_counter"] + 1),
                         "test_complete", FALSE),
                 "raw_time_series", EmptySeries)

\* Reset Camera pressed: lines 34-60 and 86-93
ResetCamera ==
    /\ BeginRun
    /\ HasBaseline(session_state)
    /\ session_state' = reset_camera(LiveTestInit(session_state))
    /\ run' = Ended("live_test", Lookup("stop_webrtc_stream"), "none")
    /\ history' = [history EXCEPT !.runs = @ + 1]

\* Start Live Test with the camera playing: lines 34-60 and 116-131
StartTest ==
    /\ BeginRun
    /\ HasBaseline(session_state)
    /\ session_state' = SetItem(LiveTestInit(session_state), "test_complete", FALSE)
    /\ run' = [page |-> "live_test", pc |-> "recording", raw_time_series |-> EmptySeries,
               raised |-> NoError, reported |-> "info"]
    /\ history' = [history EXCEPT !.runs = @ + 1]

\* lines 149-153: raw_time_series[finger_name].append((elapsed, x, y)) for the
\* tracked fingers
recorded_samples(raw_time_series, elapsed, fingertip_positions) ==
    IF fingertip_positions = None THEN raw_time_series
    ELSE [finger_name \in DOMAIN raw_time_series |->
             IF finger_name \in DOMAIN fingertip_positions \cap Fingers
             THEN Append(raw_time_series[finger_name],
                         <<elapsed, fingertip_positions[finger_name][1],
                           fingertip_positions[finger_name][2]>>)
             ELSE raw_time_series[finger_name]]

\* one iteration of the loop of lines 133-160
RecordPoll ==
    /\ run.page = "live_test"
    /\ run.pc = "recording"
    /\ \E elapsed \in Clock, fingertip_positions \in PollResults :
          /\ elapsed < config.TEST_DURATION_SECONDS
          /\ run' = [run EXCEPT
                        !.raw_time_series =
                            recorded_samples(@, elapsed, fingertip_positions)]
          /\ Within(run'.raw_time_series, MaxPolls)
    /\ UNCHANGED <<session_state, processor, worker, history>>
    /\ UNCHANGED <<config, pipeVars>>

\* the loop ends (line 135) and lines 162-174: the trajectory is stored, success is
\* reported and the camera is to be stopped
RecordFinish ==
    /\ run.page = "live_test"
    /\ run.pc = "recording"
    /\ \E elapsed \in Clock : elapsed >= config.TEST_DURATION_SECONDS
    /\ session_state' = SetItem(SetItem(session_state, "raw_time_series",
                                        run.raw_time_series),
                                "test_complete", TRUE)
    /\ run' = [page |-> "live_test",
               pc |-> IF Lookup("stop_webrtc_stream") = NoError THEN "finished" ELSE "error",
               raw_time_series |-> run.raw_time_series,
               raised |-> Lookup("stop_webrtc_stream"), reported |-> "success"]
    /\ history' = [history EXCEPT
                      !.recorded = run.raw_time_series,
                      !.recorded_with = session_state["baseline_positions"]]
    /\ UNCHANGED <<processor, worker>>
    /\ UNCHANGED <<config, pipeVars>>

\* 3_Results.py, lines 39-45, without the test of test_complete
ResultsPrerequisites_NoFlag(ss) ==
    /\ DictGet(ss, "baseline_positions", EmptyDict) # EmptyDict
    /\ DictGet(ss, "raw_time_series", EmptyDict) # EmptyDict

\* 3_Results.py, lines 35-45: neither st.stop() is reached
ResultsPrerequisites(ss) ==
    /\ DictGet(ss, "baseline_positions", EmptyDict) # EmptyDict
    /\ ~ (\/ DictGet(ss, "raw_time_series", EmptyDict) = EmptyDict
          \/ ~ DictGet(ss, "test_complete", FALSE))

\* 3_Results.py stops at a prerequisite
ResultsRefused ==
    /\ BeginRun
    /\ ~ResultsPrerequisites(session_state)
    /\ run' = Ended("results", NoError, "error")
    /\ history' = [history EXCEPT !.runs = @ + 1]
    /\ UNCHANGED session_state

\* 3_Results.py passes the prerequisites: the pipeline (Displacement .. Score) is
\* called with the session's trajectory and baseline
ResultsPage ==
    /\ pc \in {"idle", "done"}
    /\ history.runs < MaxRuns
    /\ ResultsPrerequisites(session_state)
    /\ raw_data' = session_state["raw_time_series"]
    /\ baseline_positions' = session_state["baseline_positions"]
    /\ displacement_ts' = EmptyDict
    /\ tremor' = EmptyDict
    /\ drift' = EmptyDict
    /\ fatigue' = EmptyDict
    /\ stability_score' = 0
    /\ breakdown' = EmptyDict
    /\ pc' = "start"
    /\ run' = [page |-> "results", pc |-> "computing", raised |-> NoError, reported |-> "none"]
    /\ history' = [history EXCEPT !.runs = @ + 1]
    /\ UNCHANGED <<config, session_state, processor, worker>>

\* a new session: nothing in st.session_state, no page script has run
InitSession ==
    /\ config = ShippedConfig
    /\ raw_data = EmptyDict
    /\ baseline_positions = EmptyDict
    /\ displacement_ts = EmptyDict
    /\ tremor = EmptyDict
    /\ drift = EmptyDict
    /\ fatigue = EmptyDict
    /\ stability_score = 0
    /\ breakdown = EmptyDict
    /\ pc = "idle"
    /\ AppOff

NextSession ==
    \/ CalibrationPage \/ StartCalibration \/ CalibrationPoll \/ CalibrationFinish
    \/ LiveTestBlocked \/ LiveTestPage \/ ResetCamera \/ StartTest \/ RecordPoll
    \/ RecordFinish \/ ResultsRefused \/ ResultsPage
    \/ Displacement \/ Tremor \/ Drift \/ Fatigue \/ Score

SpecSession == InitSession /\ [][NextSession]_vars

---------------------------------------------------------------------------
(* Properties of the pages *)

\* st.session_state.get("test_complete", False)
TestComplete == DictGet(session_state, "test_complete", FALSE)

\* the results page is inside or past the pipeline calls
PipelineInvoked == pc # "idle"

\* C21: over every sequence of page runs the results page calls the pipeline only with
\* a non-empty baseline and test_complete true, on the trajectory a recording loop
\* held when it ran out its duration; while test_complete is true the session's
\* raw_time_series is that trajectory, and test_complete is false while a recording
\* is collecting samples
C21_CompleteSnapshot ==
    /\ PipelineInvoked =>
          /\ baseline_positions # EmptyDict
          /\ TestComplete
          /\ history.recorded # None
          /\ raw_data = history.recorded
    /\ TestComplete =>
          /\ history.recorded # None
          /\ session_state["raw_time_series"] = history.recorded
    /\ run.pc = "recording" => ~TestComplete

\* the fourth page run of a session computed a score below 100 from a recording of
\* two samples per finger
C21_Witness ==
    /\ pc = "done"
    /\ history.runs = 4
    /\ \A finger \in Fingers : Len(raw_data[finger]) = 2
    /\ stability_score < 100 * SCALE

\* C23: the baseline the results page passes to the pipeline is the one that was in
\* the session state while the stored trajectory was recorded
C23_BaselineOfRecording ==
    PipelineInvoked => baseline_positions = history.recorded_with

\* C24: a press of Reset Camera stops the stream and reruns the page without an
\* error, having raised webrtc_key_live_counter by one, set test_complete to False and
\* replaced raw_time_series by an empty list per tracked finger; the baseline stays
C24_ResetEffects ==
    [][ResetCamera =>
          /\ run'.raised = NoError
          /\ session_state'["webrtc_key_live_counter"]
                = DictGet(session_state, "webrtc_key_live_counter", 0) + 1
          /\ session_state'["test_complete"] = FALSE
          /\ session_state'["raw_time_series"] = EmptySeries
          /\ session_state'["baseline_positions"] = session_state["baseline_positions"]]_vars

\* C25: a recording that ran out its duration stores its trajectory, sets
\* test_complete, reports success and stops the camera, and the page run ends without
\* an unhandled error
C25_EndsNormally ==
    [][RecordFinish =>
          /\ session_state'["raw_time_series"] = run.raw_time_series
          /\ session_state'["test_complete"] = TRUE
          /\ run'.reported = "success"
          /\ run'.raised = NoError
          /\ run'.pc = "finished"]_vars

\* the samples' timestamps lie in [0, TEST_DURATION_SECONDS) and do not decrease
Chronological(samples) ==
    /\ \A i \in DOMAIN samples :
          0 <= samples[i][1] /\ samples[i][1] < config.TEST_DURATION_SECONDS
    /\ \A i \in DOMAIN samples : \A j \in DOMAIN samples :
          i < j => samples[i][1] <= samples[j][1]

\* C26: the trajectory a completed Live Test stored has one entry per tracked finger,
\* each with timestamps in [0, TEST_DURATION_SECONDS) that do not decrease
C26_WellFormed ==
    TestComplete =>
        /\ DOMAIN session_state["raw_time_series"] = Fingers
        /\ \A finger \in Fingers : Chronological(session_state["raw_time_series"][finger])

\* the parts of C26 the code keeps: the keys, the upper bound of the timestamps, and
\* the same number of samples for every finger
C26_KeysAndBound ==
    TestComplete =>
        LET raw == session_state["raw_time_series"]
        IN  /\ DOMAIN raw = Fingers
            /\ \A finger \in Fingers : \A i \in DOMAIN raw[finger] :
                  raw[finger][i][1] < config.TEST_DURATION_SECONDS
            /\ \A f \in Fingers : \A g \in Fingers : Len(raw[f]) = Len(raw[g])

\* st.session_state.get("calibration_complete", False)
CalibrationComplete == DictGet(session_state, "calibration_complete", FALSE)

\* the stored baseline has an entry for each tracked finger the storing calibration
\* sampled, and for nothing else
BaselineOfSampled ==
    LET baseline == session_state["baseline_positions"]
    IN  /\ baseline # EmptyDict
        /\ DOMAIN baseline \subseteq Fingers
        /\ DOMAIN baseline = history.sampled

\* a calibration ends without a sample of any finger
FailedCalibration == CalibrationFinish /\ run.samples = EmptyDict

\* C27: while calibration_complete is True the baseline is non-empty and keyed by the
\* tracked fingers that had a calibration sample; a calibration that detected no hand
\* leaves calibration_complete False and the stored baseline as it was
C27_CalibrationComplete ==
    /\ [](CalibrationComplete => BaselineOfSampled)
    /\ [][FailedCalibration =>
            /\ session_state'["calibration_complete"] = FALSE
            /\ session_state'["baseline_positions"]
                  = session_state["baseline_positions"]]_vars

\* a recalibration detected no hand: the error is reported, calibration_complete is
\* False and the baseline of the earlier calibration is still stored
C27_Witness ==
    /\ run.page = "calibration"
    /\ run.pc = "finished"
    /\ run.reported = "error"
    /\ DictGet(run, "samples", None) = EmptyDict
    /\ ~CalibrationComplete
    /\ history.sampled = Fingers
    /\ session_state["baseline_positions"] # EmptyDict

====
